---- MODULE Spec2Model ----
(***************************************************************************)
(* The MIDI <-> token codec of midigen (tokenizer.py, midigen.py).         *)
(*                                                                         *)
(* Python lists are sequences (1-indexed here, 0-indexed in the source),   *)
(* Python tuples are tuples, mido messages are records                     *)
(* [type, note, velocity, time].                                           *)
(***************************************************************************)
EXTENDS Integers, Sequences, FiniteSets, TLC

VARIABLES
    pc,                \* position of the run in main() / in the called function
    mid,               \* the loaded container: mid.tracks, a list of tracks
    velocity,          \* args.velocity, the reconstruction velocity
    events,            \* midi_to_tokens: the extracted, sorted event list
    tokens,            \* main(): the token sequence
    toks,              \* tokens_to_midi: its local `tokens` after the slice
    i,                 \* tokens_to_midi: index of the walk (0-based, as in the source)
    current_time,      \* tokens_to_midi: the time cursor
    pending_events,    \* tokens_to_midi: list of (absolute time, message)
    track,             \* tokens_to_midi: the output track as saved
    round,             \* how many times main() has been run on this material
    prev_tokens,       \* the token sequence of the run before this one
    delta_time,        \* find_closest_time_shift: its argument
    time_shift_token,  \* find_closest_time_shift: its result
    content,           \* read_tokens_from_file: the text of the file
    read_result        \* read_tokens_from_file: what the call produced

vars == <<pc, mid, velocity, events, tokens, toks, i, current_time,
          pending_events, track, round, prev_tokens, delta_time,
          time_shift_token, content, read_result>>

codecVars == <<mid, velocity, events, tokens, toks, i, current_time,
               pending_events, track, round, prev_tokens>>
shiftVars == <<delta_time, time_shift_token>>
readVars  == <<content, read_result>>

-----------------------------------------------------------------------------
(* Bounds of the model *)

MaxMsgs   == 2      \* messages in an input container, over all its tracks
MaxTokens == 4      \* length of a token sequence handed to tokens_to_midi
MaxDelta  == 10600  \* largest delta handed to find_closest_time_shift
MaxContent == 5     \* characters in a token file
NumRounds == 2      \* runs of main() in a row (tokenize, write, tokenize again)

-----------------------------------------------------------------------------
(* Vocabulary *)

NOTE_ON_MIN  == 0
NOTE_ON_MAX  == 127
NOTE_OFF_MIN == 128
NOTE_OFF_MAX == 255

TIME_SHIFT_BASE == 256

additional_shifts ==
    <<2400, 2880, 3360, 3840, 4320, 4800, 5280, 5760, 6240,
      6720, 7200, 7680, 8160, 8640, 9120, 9600, 10080, 10560>>

TIME_SHIFTS ==
    <<10, 20, 30, 40, 60, 80, 120, 160, 240, 320, 480, 640, 960, 1920>>
        \o additional_shifts

\* Python's None, as returned for a zero delta; no token has this value.
None == -1

\* The table numbered from 1 instead of 0.
TIME_SHIFT_MAP_from1 ==
    [shift \in {TIME_SHIFTS[k] : k \in DOMAIN TIME_SHIFTS} |->
        LET last == CHOOSE k \in DOMAIN TIME_SHIFTS :
                        /\ TIME_SHIFTS[k] = shift
                        /\ \A m \in DOMAIN TIME_SHIFTS :
                               TIME_SHIFTS[m] = shift => m <= k
        IN  TIME_SHIFT_BASE + last]

\* {shift: TIME_SHIFT_BASE + i for i, shift in enumerate(TIME_SHIFTS)}:
\* a later entry of the table would overwrite an earlier equal one.
TIME_SHIFT_MAP ==
    [shift \in {TIME_SHIFTS[k] : k \in DOMAIN TIME_SHIFTS} |->
        LET last == CHOOSE k \in DOMAIN TIME_SHIFTS :
                        /\ TIME_SHIFTS[k] = shift
                        /\ \A m \in DOMAIN TIME_SHIFTS :
                               TIME_SHIFTS[m] = shift => m <= k
        IN  TIME_SHIFT_BASE + (last - 1)]

\* A table that decodes every token as the next longer duration.
REVERSE_TIME_SHIFT_MAP_shifted ==
    [t \in {TIME_SHIFT_BASE + (k - 1) : k \in DOMAIN TIME_SHIFTS} |->
        LET k == t - TIME_SHIFT_BASE + 1
        IN  IF k < Len(TIME_SHIFTS) THEN TIME_SHIFTS[k + 1] ELSE TIME_SHIFTS[k]]

\* {TIME_SHIFT_BASE + i: shift for i, shift in enumerate(TIME_SHIFTS)}
REVERSE_TIME_SHIFT_MAP ==
    [t \in {TIME_SHIFT_BASE + (k - 1) : k \in DOMAIN TIME_SHIFTS} |->
        TIME_SHIFTS[t - TIME_SHIFT_BASE + 1]]

START_SEQUENCE == 288
END_SEQUENCE   == 289

Abs(x) == IF x < 0 THEN 0 - x ELSE x

-----------------------------------------------------------------------------
(* find_closest_time_shift *)

\* min(TIME_SHIFTS, key=lambda x: abs(x - delta_time)): a left-to-right scan
\* that replaces the best element only by a strictly smaller key, so the
\* first of several minimal elements is returned.
RECURSIVE MinScan(_, _, _)
MinScan(d, k, best) ==
    IF k > Len(TIME_SHIFTS) THEN best
    ELSE IF Abs(TIME_SHIFTS[k] - d) < Abs(best - d)
         THEN MinScan(d, k + 1, TIME_SHIFTS[k])
         ELSE MinScan(d, k + 1, best)

\* The same scan keeping the last of several minimal elements.
RECURSIVE MinScanLast(_, _, _)
MinScanLast(d, k, best) ==
    IF k > Len(TIME_SHIFTS) THEN best
    ELSE IF Abs(TIME_SHIFTS[k] - d) <= Abs(best - d)
         THEN MinScanLast(d, k + 1, TIME_SHIFTS[k])
         ELSE MinScanLast(d, k + 1, best)

find_closest_time_shift_last(d) ==
    IF d = 0 THEN None
    ELSE TIME_SHIFT_MAP[MinScanLast(d, 2, TIME_SHIFTS[1])]

find_closest_time_shift(d) ==
    IF d = 0 THEN None
    ELSE LET closest_shift == MinScan(d, 2, TIME_SHIFTS[1])
         IN  TIME_SHIFT_MAP[closest_shift]

-----------------------------------------------------------------------------
(* midi_to_tokens *)

\* for msg in track: absolute_time += msg.time; keep the note messages.
RECURSIVE ExtractTrack(_, _, _)
ExtractTrack(trk, k, absolute_time) ==
    IF k > Len(trk) THEN <<>>
    ELSE LET msg == trk[k]
             t   == absolute_time + msg.time
             ev  == IF msg.type = "note_on" /\ msg.velocity > 0
                        THEN << <<t, "note_on", msg.note>> >>
                    ELSE IF \/ msg.type = "note_off"
                            \/ (msg.type = "note_on" /\ msg.velocity = 0)
                        THEN << <<t, "note_off", msg.note>> >>
                    ELSE <<>>
         IN  ev \o ExtractTrack(trk, k + 1, t)

\* for track in mid.tracks: every track starts again at absolute time 0.
RECURSIVE ExtractTracks(_, _)
ExtractTracks(tracks, n) ==
    IF n > Len(tracks) THEN <<>>
    ELSE ExtractTrack(tracks[n], 1, 0) \o ExtractTracks(tracks, n + 1)

\* Python's order on the strings 'note_off' and 'note_on'.
StrLess(x, y) == x = "note_off" /\ y = "note_on"

\* Python's order on the tuples (absolute_time, event_type, note).
TupleLess(a, b) ==
    \/ a[1] < b[1]
    \/ a[1] = b[1] /\ StrLess(a[2], b[2])
    \/ a[1] = b[1] /\ a[2] = b[2] /\ a[3] < b[3]

\* events.sort(): list.sort() without a key compares whole tuples.
RECURSIVE InsertEvent(_, _)
InsertEvent(e, s) ==
    IF s = <<>> THEN <<e>>
    ELSE IF TupleLess(e, s[Len(s)])
         THEN InsertEvent(e, SubSeq(s, 1, Len(s) - 1)) \o <<s[Len(s)]>>
         ELSE s \o <<e>>

RECURSIVE SortEvents(_)
SortEvents(s) ==
    IF s = <<>> THEN <<>>
    ELSE InsertEvent(s[Len(s)], SortEvents(SubSeq(s, 1, Len(s) - 1)))

\* A note token that encodes NOTE_OFF one too low.
EventTokenLow(event_type, note) ==
    IF event_type = "note_on" THEN note ELSE note + 127

\* The note event token of one event.
EventToken(event_type, note) ==
    IF event_type = "note_on" THEN note ELSE note + 128

\* The body of `for i, event in enumerate(events)` from event k on.
RECURSIVE TokenizeFrom(_, _)
TokenizeFrom(evs, k) ==
    IF k > Len(evs) THEN <<>>
    ELSE LET time  == evs[k][1]
             shift ==
                 IF k < Len(evs)
                 THEN LET next_time == evs[k + 1][1]
                          delta     == next_time - time
                      IN  IF delta > 0
                          THEN LET tst == find_closest_time_shift(delta)
                               IN  IF tst # None THEN <<tst>> ELSE <<>>
                          ELSE <<>>
                 ELSE <<>>
         IN  <<EventToken(evs[k][2], evs[k][3])>> \o shift
                 \o TokenizeFrom(evs, k + 1)

\* A token list that is never closed by END_SEQUENCE.
TokenizeOpen(evs) == <<START_SEQUENCE>> \o TokenizeFrom(evs, 1)

Tokenize(evs) == <<START_SEQUENCE>> \o TokenizeFrom(evs, 1) \o <<END_SEQUENCE>>

midi_to_tokens ==
    /\ pc = "start"
    /\ events' = SortEvents(ExtractTracks(mid, 1))
    /\ tokens' = Tokenize(events')
    /\ pc' = "tokens"
    /\ UNCHANGED <<mid, velocity, toks, i, current_time, pending_events,
                   track, round, prev_tokens>>
    /\ UNCHANGED <<shiftVars, readVars>>

-----------------------------------------------------------------------------
(* tokens_to_midi *)

\* Python's seq[a:b] for 0 <= a, b <= len(seq).
Slice(s, a, b) == SubSeq(s, a + 1, b)

\* Lines up to the start of the walk: strip the markers, reset the cursor.
StripMarkers ==
    /\ pc = "tokens"
    /\ LET start_idx == IF tokens # <<>> /\ tokens[1] = START_SEQUENCE
                        THEN 1 ELSE 0
           end_idx   == IF tokens # <<>> /\ tokens[Len(tokens)] = END_SEQUENCE
                        THEN Len(tokens) - 1 ELSE Len(tokens)
       IN  toks' = Slice(tokens, start_idx, end_idx)
    /\ current_time' = 0
    /\ pending_events' = <<>>
    /\ track' = <<>>
    /\ i' = 0
    /\ pc' = "walk"
    /\ UNCHANGED <<mid, velocity, events, tokens, round, prev_tokens>>
    /\ UNCHANGED <<shiftVars, readVars>>

Message(type, note, vel, time) ==
    [type |-> type, note |-> note, velocity |-> vel, time |-> time]

\* A cursor that a TIME_SHIFT token moves backwards.
AdvanceBack(t, token) == t - REVERSE_TIME_SHIFT_MAP[token]

\* current_time += time_shift
Advance(t, token) == t + REVERSE_TIME_SHIFT_MAP[token]

\* A range test that misses the highest NOTE_OFF token.
IsNoteOffShort(token) == NOTE_OFF_MIN <= token /\ token < NOTE_OFF_MAX

IsNoteOn(token)  == NOTE_ON_MIN <= token /\ token <= NOTE_ON_MAX
IsNoteOff(token) == NOTE_OFF_MIN <= token /\ token <= NOTE_OFF_MAX

\* One iteration of `while i < len(tokens)`.
WalkToken ==
    /\ pc = "walk"
    /\ i < Len(toks)
    /\ LET token == toks[i + 1]
       IN  IF IsNoteOn(token)
           THEN /\ pending_events' = Append(pending_events,
                        <<current_time, Message("note_on", token, velocity, 0)>>)
                /\ UNCHANGED current_time
           ELSE IF IsNoteOff(token)
           THEN /\ pending_events' = Append(pending_events,
                        <<current_time, Message("note_off", token - 128, 0, 0)>>)
                /\ UNCHANGED current_time
           ELSE IF token \in DOMAIN REVERSE_TIME_SHIFT_MAP
           THEN /\ current_time' = Advance(current_time, token)
                /\ UNCHANGED pending_events
           ELSE UNCHANGED <<current_time, pending_events>>
    /\ i' = i + 1
    /\ UNCHANGED <<pc, mid, velocity, events, tokens, toks, track, round,
                   prev_tokens>>
    /\ UNCHANGED <<shiftVars, readVars>>

\* pending_events.sort(key=lambda x: x[0]): stable, compares the times only.
RECURSIVE InsertPending(_, _)
InsertPending(e, s) ==
    IF s = <<>> THEN <<e>>
    ELSE IF e[1] < s[Len(s)][1]
         THEN InsertPending(e, SubSeq(s, 1, Len(s) - 1)) \o <<s[Len(s)]>>
         ELSE s \o <<e>>

RECURSIVE SortPending(_)
SortPending(s) ==
    IF s = <<>> THEN <<>>
    ELSE InsertPending(s[Len(s)], SortPending(SubSeq(s, 1, Len(s) - 1)))

\* for abs_time, msg in pending_events: msg.time = int(abs_time - last_time)
RECURSIVE DeltaMessages(_, _, _)
DeltaMessages(pend, k, last_time) ==
    IF k > Len(pend) THEN <<>>
    ELSE LET abs_time == pend[k][1]
             msg      == pend[k][2]
         IN  <<[msg EXCEPT !.time = abs_time - last_time]>>
                 \o DeltaMessages(pend, k + 1, abs_time)

\* The end of the function: sort, write the deltas, save.
WriteTrack ==
    /\ pc = "walk"
    /\ i >= Len(toks)
    /\ pending_events' = SortPending(pending_events)
    /\ track' = DeltaMessages(pending_events', 1, 0)
    /\ pc' = "saved"
    /\ UNCHANGED <<mid, velocity, events, tokens, toks, i, current_time,
                   round, prev_tokens>>
    /\ UNCHANGED <<shiftVars, readVars>>

-----------------------------------------------------------------------------
(* main() run again on the container that was written *)

\* mid.save() closes the track with an end_of_track meta message; loading
\* the file gives back one track holding the written messages.
Reload ==
    /\ pc = "saved"
    /\ round < NumRounds
    /\ mid' = << track \o <<Message("end_of_track", 0, 0, 0)>> >>
    /\ prev_tokens' = tokens
    /\ round' = round + 1
    /\ pc' = "start"
    /\ UNCHANGED <<velocity, events, tokens, toks, i, current_time,
                   pending_events, track>>
    /\ UNCHANGED <<shiftVars, readVars>>

-----------------------------------------------------------------------------
(* Inputs *)

Pitches       == {0, 127}
Deltas        == {0, 25, 480}
MsgVelocities == {0, 64}
Velocities    == {0, 64}

Messages ==
    {Message("note_on", n, v, d) : n \in Pitches, v \in MsgVelocities, d \in Deltas}
        \cup {Message("note_off", n, 0, d) : n \in Pitches, d \in Deltas}
        \cup {Message("set_tempo", 0, 0, d) : d \in Deltas}

SeqsUpTo(S, n) == UNION {[1..k -> S] : k \in 0..n}

\* Containers of one or two tracks holding at most MaxMsgs messages.
MidiFiles ==
    {<<s>> : s \in SeqsUpTo(Messages, MaxMsgs)}
        \cup UNION {{<<SubSeq(s, 1, k), SubSeq(s, k + 1, Len(s))>> :
                         k \in 0..Len(s)} : s \in SeqsUpTo(Messages, MaxMsgs)}

TokenValues == {-1, 0, 127, 128, 255, 256, 287, 288, 289, 290}

IdleShift == delta_time = 0 /\ time_shift_token = None
IdleRead  == content = <<>> /\ read_result = <<>>
IdleCodec ==
    /\ mid = <<>> /\ velocity = 64 /\ events = <<>> /\ tokens = <<>>
    /\ toks = <<>> /\ i = 0 /\ current_time = 0 /\ pending_events = <<>>
    /\ track = <<>> /\ round = 1 /\ prev_tokens = <<>>

\* main() on a MIDI file, with --output.
Init ==
    /\ pc = "start"
    /\ mid \in MidiFiles
    /\ velocity \in Velocities
    /\ events = <<>> /\ tokens = <<>> /\ toks = <<>> /\ i = 0
    /\ current_time = 0 /\ pending_events = <<>> /\ track = <<>>
    /\ round = 1 /\ prev_tokens = <<>>
    /\ IdleShift /\ IdleRead

Next == midi_to_tokens \/ StripMarkers \/ WalkToken \/ WriteTrack \/ Reload

Spec == Init /\ [][Next]_vars

\* tokens_to_midi on an arbitrary token sequence.
InitDetok ==
    /\ pc = "tokens"
    /\ tokens \in SeqsUpTo(TokenValues, MaxTokens)
    /\ velocity \in Velocities
    /\ mid = <<>> /\ events = <<>> /\ toks = <<>> /\ i = 0
    /\ current_time = 0 /\ pending_events = <<>> /\ track = <<>>
    /\ round = 1 /\ prev_tokens = <<>>
    /\ IdleShift /\ IdleRead

NextDetok == StripMarkers \/ WalkToken \/ WriteTrack

SpecDetok == InitDetok /\ [][NextDetok]_vars

\* find_closest_time_shift on every delta up to MaxDelta.
FindClosest ==
    /\ pc = "call"
    /\ time_shift_token' = find_closest_time_shift(delta_time)
    /\ pc' = "returned"
    /\ UNCHANGED <<delta_time, codecVars, readVars>>

InitShift ==
    /\ pc = "call"
    /\ delta_time \in 0..MaxDelta
    /\ time_shift_token = None
    /\ IdleCodec /\ IdleRead

NextShift == FindClosest

SpecShift == InitShift /\ [][NextShift]_vars

-----------------------------------------------------------------------------
(* read_tokens_from_file *)

\* The text of a file is a sequence of characters.  Python values are
\* records: [type |-> "int", val |-> n], [type |-> "list", val |-> <<...>>],
\* [type |-> "tuple", val |-> <<...>>]; a raised exception is
\* [type |-> "error", val |-> <<>>].
Chars == {"[", "]", ",", "\n", "1", "2", "x"}

PyInt(n)   == [type |-> "int", val |-> n]
PyList(s)  == [type |-> "list", val |-> s]
PyTuple(s) == [type |-> "tuple", val |-> s]
PyError    == [type |-> "error", val |-> <<>>]

IsDigit(ch)  == ch \in {"0", "1", "2", "3", "4", "5", "6", "7", "8", "9"}
DigitVal(ch) ==
    CASE ch = "0" -> 0 [] ch = "1" -> 1 [] ch = "2" -> 2 [] ch = "3" -> 3
      [] ch = "4" -> 4 [] ch = "5" -> 5 [] ch = "6" -> 6 [] ch = "7" -> 7
      [] ch = "8" -> 8 [] ch = "9" -> 9

At(c, p) == IF p <= Len(c) THEN c[p] ELSE "EOF"

Parsed(v, p) == [ok |-> TRUE, val |-> v, pos |-> p]
Failed       == [ok |-> FALSE, val |-> PyError, pos |-> 0]

\* A run of newlines: blank lines before the expression, the NEWLINE tokens
\* after it, and line breaks inside brackets are all skipped by the parser.
RECURSIVE SkipNL(_, _)
SkipNL(c, p) == IF At(c, p) = "\n" THEN SkipNL(c, p + 1) ELSE p

\* A decimal integer literal starting at p.
RECURSIVE ParseNumber(_, _, _)
ParseNumber(c, p, acc) ==
    IF IsDigit(At(c, p)) THEN ParseNumber(c, p + 1, 10 * acc + DigitVal(c[p]))
    ELSE Parsed(PyInt(acc), p)

\* A literal starting at p: a number or a list display of literals.  Names
\* and subscripts parse as expressions but are rejected by literal_eval, and
\* everything else is a syntax error: both raise.
RECURSIVE ParseLiteral(_, _)
RECURSIVE ParseItems(_, _, _)
ParseLiteral(c, p) ==
    IF IsDigit(At(c, p)) THEN ParseNumber(c, p, 0)
    ELSE IF At(c, p) = "[" THEN ParseItems(c, SkipNL(c, p + 1), <<>>)
    ELSE Failed

\* The items of a list display, p just after "[" or after a comma.
ParseItems(c, p, acc) ==
    IF At(c, p) = "]" THEN Parsed(PyList(acc), p + 1)
    ELSE LET item == ParseLiteral(c, p)
             q    == SkipNL(c, item.pos)
         IN  IF ~item.ok THEN Failed
             ELSE IF At(c, q) = ","
                 THEN ParseItems(c, SkipNL(c, q + 1), Append(acc, item.val))
             ELSE IF At(c, q) = "]"
                 THEN Parsed(PyList(Append(acc, item.val)), q + 1)
             ELSE Failed

\* The rest of a top-level tuple, p just after a comma.
RECURSIVE ParseTuple(_, _, _)
ParseTuple(c, p, acc) ==
    IF At(c, p) \in {"\n", "EOF"} THEN Parsed(PyTuple(acc), p)
    ELSE LET item == ParseLiteral(c, p)
         IN  IF ~item.ok THEN Failed
             ELSE IF At(c, item.pos) = ","
                 THEN ParseTuple(c, item.pos + 1, Append(acc, item.val))
             ELSE Parsed(PyTuple(Append(acc, item.val)), item.pos)

\* ast.literal_eval(content): the whole text must be one literal expression
\* (a comma at top level makes it a tuple), followed by nothing but newlines.
literal_eval(c) ==
    LET first == ParseLiteral(c, SkipNL(c, 1))
        whole == IF ~first.ok THEN Failed
                 ELSE IF At(c, first.pos) = ","
                     THEN ParseTuple(c, first.pos + 1, <<first.val>>)
                 ELSE first
    IN  IF whole.ok /\ SkipNL(c, whole.pos) = Len(c) + 1 THEN whole ELSE Failed

\* content.split('\n') from position p on, the current line collected in cur.
RECURSIVE SplitLines(_, _, _)
SplitLines(c, p, cur) ==
    IF p > Len(c) THEN <<cur>>
    ELSE IF c[p] = "\n" THEN <<cur>> \o SplitLines(c, p + 1, <<>>)
    ELSE SplitLines(c, p + 1, Append(cur, c[p]))

\* int(line) for a non-empty line without white space.
IntOfLine(line) ==
    IF \A k \in DOMAIN line : IsDigit(line[k])
    THEN ParseNumber(line, 1, 0)
    ELSE Failed

\* [int(line.strip()) for line in content.split('\n') if line.strip()]
RECURSIVE IntsOfLines(_, _)
IntsOfLines(lines, k) ==
    IF k > Len(lines) THEN Parsed(PyList(<<>>), 0)
    ELSE IF lines[k] = <<>> THEN IntsOfLines(lines, k + 1)
    ELSE LET n    == IntOfLine(lines[k])
             rest == IntsOfLines(lines, k + 1)
         IN  IF n.ok /\ rest.ok
             THEN Parsed(PyList(<<n.val>> \o rest.val.val), 0)
             ELSE Failed

read_tokens_from_file(c) ==
    LET parsed == literal_eval(c)
    IN  IF parsed.ok THEN parsed.val
        ELSE LET fallback == IntsOfLines(SplitLines(c, 1, <<>>), 1)
             IN  IF fallback.ok THEN fallback.val ELSE PyError

ReadTokens ==
    /\ pc = "open"
    /\ read_result' = read_tokens_from_file(content)
    /\ pc' = IF read_result'.type = "error" THEN "raised" ELSE "returned"
    /\ UNCHANGED <<content, codecVars, shiftVars>>

InitRead ==
    /\ pc = "open"
    /\ content \in SeqsUpTo(Chars, MaxContent)
    /\ read_result = <<>>
    /\ IdleCodec /\ IdleShift

NextRead == ReadTokens

SpecRead == InitRead /\ [][NextRead]_vars

-----------------------------------------------------------------------------
(* Vocabulary of the properties *)

IsShiftToken(t) == t \in 256..287
IsNoteToken(t)  == t \in 0..255
Durations       == {TIME_SHIFTS[k] : k \in DOMAIN TIME_SHIFTS}

\* The walk of tokens_to_midi has consumed every token.
WalkDone == (pc = "walk" /\ i = Len(toks)) \/ pc = "saved"

\* Number of note tokens among the first n tokens of s.
RECURSIVE NoteCount(_, _)
NoteCount(s, n) ==
    IF n = 0 THEN 0
    ELSE NoteCount(s, n - 1) + (IF IsNoteToken(s[n]) THEN 1 ELSE 0)

\* Sum of the durations of the TIME_SHIFT tokens among the first n tokens of s.
RECURSIVE ShiftSum(_, _)
ShiftSum(s, n) ==
    IF n = 0 THEN 0
    ELSE ShiftSum(s, n - 1)
             + (IF IsShiftToken(s[n]) THEN TIME_SHIFTS[s[n] - 255] ELSE 0)

\* Sum of the first n delta times of a track.
RECURSIVE DeltaSum(_, _)
DeltaSum(trk, n) == IF n = 0 THEN 0 ELSE DeltaSum(trk, n - 1) + trk[n].time

\* Every gap between consecutive events is 0 or a table duration.
ExactGaps(evs) ==
    \A k \in 1..(Len(evs) - 1) :
        LET gap == evs[k + 1][1] - evs[k][1] IN gap = 0 \/ gap \in Durations

-----------------------------------------------------------------------------
(* Properties of the codec, specification Spec *)

\* C1: tokenizing and then detokenizing recovers as many events as went in,
\* and the j-th recovered event has the kind and the pitch of the j-th event
\* the forward codec processed.
C1_RoundTripKindPitch ==
    WalkDone =>
        /\ Len(pending_events) = Len(events)
        /\ \A j \in DOMAIN events :
               /\ pending_events[j][2].type = events[j][2]
               /\ pending_events[j][2].note = events[j][3]

C1_Witness ==
    /\ pc = "saved" /\ round = 1
    /\ Len(events) = 2
    /\ events[1][2] = "note_off" /\ events[2][2] = "note_on"
    /\ events[1][3] = 0 /\ events[2][3] = 127

\* C2 as stated: when every gap is 0 or a table duration, every event is
\* recovered at its original absolute time.
C2_ExactTimes ==
    (WalkDone /\ ExactGaps(events)) =>
        \A j \in DOMAIN events :
            j <= Len(pending_events) => pending_events[j][1] = events[j][1]

\* C2 amended: when every gap is 0 or a table duration, every event is
\* recovered at its original absolute time minus the absolute time of the
\* first event (no TIME_SHIFT is emitted before the first event).
C2_ExactTimesFromFirst ==
    (WalkDone /\ ExactGaps(events)) =>
        /\ Len(pending_events) = Len(events)
        /\ \A j \in DOMAIN events :
               pending_events[j][1] = events[j][1] - events[1][1]

C2_Witness ==
    /\ pc = "saved" /\ round = 1
    /\ Len(events) = 2
    /\ events[1][1] = 480 /\ events[2][1] = 960
    /\ pending_events[2][1] = 480

\* out is in a stable sort by time of inp: a rearrangement of inp in
\* ascending time in which equal times keep their order in inp.
IsStableTimeSort(out, inp) ==
    /\ Len(out) = Len(inp)
    /\ \E perm \in [DOMAIN inp -> DOMAIN inp] :
           /\ \A k \in DOMAIN inp : out[k] = inp[perm[k]]
           /\ \A k, l \in DOMAIN inp :
                  k < l => \/ inp[perm[k]][1] < inp[perm[l]][1]
                           \/ /\ inp[perm[k]][1] = inp[perm[l]][1]
                              /\ perm[k] < perm[l]

\* C3: the extracted events are sorted by absolute time with a stable sort:
\* events of equal time keep message order and track order.
C3_StableExtraction ==
    pc = "tokens" => IsStableTimeSort(events, ExtractTracks(mid, 1))

\* C8: the token sequence starts with START_SEQUENCE, ends with END_SEQUENCE,
\* holds only tokens 0..287 between them, and has one note token per event.
C8_ForwardStructure ==
    tokens # <<>> =>
        /\ Len(tokens) >= 2
        /\ tokens[1] = START_SEQUENCE
        /\ tokens[Len(tokens)] = END_SEQUENCE
        /\ \A k \in 2..(Len(tokens) - 1) : tokens[k] \in 0..287
        /\ NoteCount(tokens, Len(tokens)) = Len(events)

C8_Witness ==
    /\ pc = "tokens" /\ round = 1
    /\ Len(events) = 2 /\ Len(tokens) = 5
    /\ IsShiftToken(tokens[3])

\* C10: with a reconstruction velocity in 1..127, tokenizing the written
\* container again yields the token sequence it was written from; and no
\* token sequence has two adjacent TIME_SHIFT tokens, a TIME_SHIFT directly
\* after START_SEQUENCE or a TIME_SHIFT directly before END_SEQUENCE.
C10_Idempotent ==
    /\ (round > 1 /\ pc # "start" /\ velocity \in 1..127) => tokens = prev_tokens
    /\ tokens # <<>> =>
           /\ \A k \in 1..(Len(tokens) - 1) :
                  ~(IsShiftToken(tokens[k]) /\ IsShiftToken(tokens[k + 1]))
           /\ ~IsShiftToken(tokens[2])
           /\ ~IsShiftToken(tokens[Len(tokens) - 1])

C10_Witness ==
    /\ round = 2 /\ pc = "tokens" /\ velocity = 64
    /\ Len(events) = 2
    /\ tokens = prev_tokens
    /\ tokens[3] = 257
    /\ \E t \in DOMAIN mid : \E k \in DOMAIN mid[t] : mid[t][k].time = 20

-----------------------------------------------------------------------------
(* Properties of find_closest_time_shift, specification SpecShift *)

\* C4: for a positive delta the result is the token 256+i of a duration
\* TIME_SHIFTS[i] at minimal distance from delta, the first such in the table
\* (the smaller duration); delta 25 gives the token of 20, and every delta
\* above 10560 gives token 287.
C4_NearestDuration ==
    (pc = "returned" /\ delta_time > 0) =>
        /\ \E k \in DOMAIN TIME_SHIFTS :
               /\ time_shift_token = 256 + (k - 1)
               /\ \A m \in DOMAIN TIME_SHIFTS :
                      /\ Abs(TIME_SHIFTS[k] - delta_time)
                             <= Abs(TIME_SHIFTS[m] - delta_time)
                      /\ Abs(TIME_SHIFTS[k] - delta_time)
                             = Abs(TIME_SHIFTS[m] - delta_time)
                         => (k <= m /\ TIME_SHIFTS[k] <= TIME_SHIFTS[m])
        /\ delta_time = 25 => time_shift_token = 257
        /\ delta_time > 10560 => time_shift_token = 287

C4_Witness ==
    /\ pc = "returned" /\ delta_time = 25 /\ time_shift_token = 257

-----------------------------------------------------------------------------
(* Properties of tokens_to_midi, specification SpecDetok *)

\* The token sequence without one leading START_SEQUENCE and one trailing
\* END_SEQUENCE.
Stripped(s) ==
    LET a == IF s # <<>> /\ Head(s) = 288 THEN Tail(s) ELSE s
    IN  IF a # <<>> /\ a[Len(a)] = 289 THEN SubSeq(a, 1, Len(a) - 1) ELSE a

\* C7: after the markers are stripped, the recovered events correspond
\* one-to-one and in order to the tokens in 0..255, with the pitch the token
\* encodes and the time the sum of the durations of the TIME_SHIFT tokens
\* before it; no other token yields an event or moves the time cursor.
C7_DetokWalk ==
    pc \in {"walk", "saved"} =>
        /\ toks = Stripped(tokens)
        /\ Len(pending_events) = NoteCount(toks, i)
        /\ current_time = ShiftSum(toks, i)
        /\ \A k \in 1..i :
               IsNoteToken(toks[k]) =>
                   LET ev == pending_events[NoteCount(toks, k)]
                   IN  /\ ev[1] = ShiftSum(toks, k)
                       /\ toks[k] <= 127 =>
                              ev[2].type = "note_on" /\ ev[2].note = toks[k]
                       /\ toks[k] >= 128 =>
                              ev[2].type = "note_off" /\ ev[2].note = toks[k] - 128

C7_Witness ==
    /\ pc = "saved"
    /\ Len(tokens) = 4 /\ tokens[1] = 288 /\ tokens[2] = 287
    /\ tokens[3] \in {-1, 288, 289, 290}
    /\ tokens[4] = 255
    /\ Len(pending_events) = 1
    /\ pending_events[1][1] = 10560

\* C9: the pending list is in non-decreasing time order at every step of the
\* walk, so that sorting it changes nothing; every delta written to the track
\* is a non-negative integer, and the deltas up to a message add up to the
\* absolute time of its event.
C9_ReEmissionDeltas ==
    /\ pc \in {"walk", "saved"} =>
           /\ \A k \in 1..(Len(pending_events) - 1) :
                  pending_events[k][1] <= pending_events[k + 1][1]
           /\ SortPending(pending_events) = pending_events
    /\ pc = "saved" =>
           /\ Len(track) = Len(pending_events)
           /\ \A k \in DOMAIN track :
                  /\ track[k].time \in Nat
                  /\ DeltaSum(track, k) = pending_events[k][1]
                  /\ track[k] = [pending_events[k][2] EXCEPT !.time = track[k].time]

C9_Witness ==
    /\ pc = "saved"
    /\ Len(track) = 2
    /\ track[1].time = 10 /\ track[2].time = 10560
    /\ pending_events[2][1] = 10570

-----------------------------------------------------------------------------
(* Properties of read_tokens_from_file, specification SpecRead *)

\* The decimal digits of a non-negative integer.
DigitChar(d) ==
    CASE d = 0 -> "0" [] d = 1 -> "1" [] d = 2 -> "2" [] d = 3 -> "3"
      [] d = 4 -> "4" [] d = 5 -> "5" [] d = 6 -> "6" [] d = 7 -> "7"
      [] d = 8 -> "8" [] d = 9 -> "9"

RECURSIVE Decimal(_)
Decimal(n) ==
    IF n < 10 THEN <<DigitChar(n)>>
    ELSE Decimal(n \div 10) \o <<DigitChar(n % 10)>>

\* The list L written as a list literal: [a,b,c]
RECURSIVE LiteralItems(_, _)
LiteralItems(L, k) ==
    IF k > Len(L) THEN <<>>
    ELSE (IF k > 1 THEN <<",">> ELSE <<>>) \o Decimal(L[k]) \o LiteralItems(L, k + 1)

LiteralText(L) == <<"[">> \o LiteralItems(L, 1) \o <<"]">>

\* The list L written one integer per line.
RECURSIVE LinesText(_, _)
LinesText(L, k) ==
    IF k > Len(L) THEN <<>>
    ELSE Decimal(L[k]) \o <<"\n">> \o LinesText(L, k + 1)

TokenLists == SeqsUpTo({1, 2, 12}, 2) \ {<<>>}

PyIntList(L) == PyList([k \in DOMAIN L |-> PyInt(L[k])])

\* C5: a file holding a non-empty list L as a list literal, and a file
\* holding L one integer per line, both read as the list L.
C5_BothEncodings ==
    pc # "open" =>
        \A L \in TokenLists :
            (content = LiteralText(L) \/ content = LinesText(L, 1))
                => read_result = PyIntList(L)

IsIntListLiteral(c) ==
    LET r == literal_eval(c)
    IN  /\ r.ok
        /\ r.val.type = "list"
        /\ \A k \in DOMAIN r.val.val : r.val.val[k].type = "int"

IsIntLines(c) ==
    LET lines == SplitLines(c, 1, <<>>)
    IN  /\ \E k \in DOMAIN lines : lines[k] # <<>>
        /\ \A k \in DOMAIN lines : \A m \in DOMAIN lines[k] : IsDigit(lines[k][m])

\* C6: a file that is neither a list-of-integers literal nor one integer per
\* non-blank line makes the call fail; no value is returned.
C6_UnparseableFails ==
    (pc # "open" /\ ~IsIntListLiteral(content) /\ ~IsIntLines(content))
        => (pc = "raised" /\ read_result.type = "error")

====
